---- MODULE Spec2Model ----
(***************************************************************************)
(* Model of the manifest-driven downloader of fandom.py: the commands      *)
(* download-media and view-next-download, the manifest file, the media     *)
(* directory and the remote endpoint.                                      *)
(*                                                                         *)
(* Strings are sequences of one-character strings.  A dictionary field is  *)
(* Absent (no key), Null (JSON null) or a string.  A file is the number of *)
(* body chunks it holds, NoFile when the path does not exist.              *)
(***************************************************************************)
EXTENDS Integers, Sequences, FiniteSets, TLC

\* ------------------------------------------------------------------ bounds

\* longest manifest the crawler leaves behind
MaxLen == 3
\* largest value given to --limit
MaxLimit == MaxLen - 1
\* number of chunks resp.iter_bytes() yields for a complete body
BodyLen == 2

\* ------------------------------------------------------- program constants

\* DOWNLOAD_LOG_INTERVAL is 50 in the source; it is scaled to 2 here so that
\* the periodic report is reached by manifests of MaxLen entries.  The code
\* uses it only in "downloads_since_log >= DOWNLOAD_LOG_INTERVAL".
DOWNLOAD_LOG_INTERVAL == 2
MAX_BACKOFF_SECONDS == 2 * 60 * 60
\* free space is counted in KiB (TLC integers are 32 bits wide)
MIN_FREE_BYTES == 10 * 1024 * 1024
InitialDelay == 5

\* ------------------------------------------------------------ data values

Absent == <<"#absent">>
Null == <<"#null">>
NoFile == -1

\* Python truthiness of the value of entry.get(key)
Truthy(v) == v # Absent /\ v # Null /\ v # <<>>

\* str(x) of a value that is None or a string
PyStr(v) == IF v = Null \/ v = Absent THEN <<"N", "o", "n", "e">> ELSE v

\* s.replace(" ", "_")
ReplaceSpaces(s) == [i \in 1..Len(s) |-> IF s[i] = " " THEN "_" ELSE s[i]]

\* the file name under media_dir; <<>> is media_dir itself
DestinationForEntry(entry) ==
    LET name == IF Truthy(entry.name) THEN entry.name
                ELSE IF entry.title = Absent THEN <<"f", "i", "l", "e">>
                ELSE entry.title
        sanitized == ReplaceSpaces(PyStr(name))
    IN  IF Truthy(entry.sha1) THEN entry.sha1 \o <<"_">> \o sanitized
        ELSE sanitized

\* dest.with_suffix(dest.suffix + ".part")
PartPath(dest) == dest \o <<".", "p", "a", "r", "t">>

\* the descriptors the crawler writes; failure is never set by the crawler
Descriptors ==
    { [url |-> <<"u">>, name |-> <<"a">>, title |-> Absent, sha1 |-> Absent,
       failure |-> <<>>],
      [url |-> <<"v">>, name |-> Absent, title |-> <<"b", " ">>, sha1 |-> <<"s">>,
       failure |-> <<>>],
      [url |-> Absent, name |-> <<"c">>, title |-> Absent, sha1 |-> Absent,
       failure |-> <<>>] }

Manifests == UNION { [1..n -> Descriptors] : n \in 0..MaxLen }

DestPaths == { DestinationForEntry(d) : d \in Descriptors }
AllPaths == DestPaths \cup { PartPath(p) : p \in DestPaths }

\* --limit: <<>> when the option is not given, <<n>> otherwise
Limits == { <<>> } \cup { <<n>> : n \in 0..MaxLimit }

FreeLevels == { MIN_FREE_BYTES - 1, MIN_FREE_BYTES }

Min(a, b) == IF a < b THEN a ELSE b

\* media[: n] for n >= 0
Take(s, n) == SubSeq(s, 1, Min(n, Len(s)))

\* "if args.limit: media = media[: args.limit]"
ApplyLimit(entries, lim) ==
    IF lim # <<>> /\ lim[1] # 0 THEN Take(entries, lim[1]) ELSE entries

\* dest.exists(); media_dir itself exists after mkdir
Exists(d, dest) == dest = <<>> \/ d[dest] # NoFile

RECURSIVE SumSizes(_, _)
SumSizes(d, paths) ==
    IF paths = {} THEN 0
    ELSE LET p == CHOOSE q \in paths : TRUE
         IN  (IF d[p] = NoFile THEN 0 ELSE d[p]) + SumSizes(d, paths \ {p})

\* _dir_size_bytes: every file under media_dir, .part files included
DirSizeBytes(d) == SumSizes(d, AllPaths)

\* the skip tests without "if dest.exists(): continue"
ShouldSkipNoExists(entry, d) ==
    \/ ~Truthy(entry.url)
    \/ entry.failure # <<>>

\* the skip tests without "if entry.get("failure") is not None: continue"
ShouldSkipNoFailure(entry, d) ==
    \/ ~Truthy(entry.url)
    \/ Exists(d, DestinationForEntry(entry))

\* the skip tests at the head of the download loop
ShouldSkip(entry, d) ==
    \/ ~Truthy(entry.url)
    \/ entry.failure # <<>>
    \/ Exists(d, DestinationForEntry(entry))

\* _get_next_pending_entry: position of the first pending entry, 0 for None
RECURSIVE NextPendingFrom(_, _, _)
NextPendingFrom(media_entries, d, i) ==
    IF i > Len(media_entries) THEN 0
    ELSE IF ~Truthy(media_entries[i].url) THEN NextPendingFrom(media_entries, d, i + 1)
    ELSE IF media_entries[i].failure # <<>> THEN NextPendingFrom(media_entries, d, i + 1)
    ELSE IF Exists(d, DestinationForEntry(media_entries[i]))
         THEN NextPendingFrom(media_entries, d, i + 1)
    ELSE i

\* the scan without "if entry.get("failure") is not None: continue"
RECURSIVE NextPendingIgnoringFailure(_, _, _)
NextPendingIgnoringFailure(media_entries, d, i) ==
    IF i > Len(media_entries) THEN 0
    ELSE IF ~Truthy(media_entries[i].url)
         THEN NextPendingIgnoringFailure(media_entries, d, i + 1)
    ELSE IF Exists(d, DestinationForEntry(media_entries[i]))
         THEN NextPendingIgnoringFailure(media_entries, d, i + 1)
    ELSE i

GetNextPendingIgnoringFailure(media_entries, d) ==
    NextPendingIgnoringFailure(media_entries, d, 1)

GetNextPendingEntry(media_entries, d) == NextPendingFrom(media_entries, d, 1)

\* ------------------------------------------------------------------ state

VARIABLES
    mfile,               \* all_media_urls.json: [state, entries]
    disk,                \* media_dir: path -> chunks stored, NoFile if absent
    free_bytes,          \* shutil.disk_usage(media_dir).free
    pc,                  \* position of the download-media process
    limit,               \* args.limit of the run
    media,               \* the list the run iterates over
    idx,                 \* position of the entry of the current iteration
    total_entries,
    completed_entries,
    downloaded_files,
    downloads_since_log,
    bytes_on_disk,
    delay,               \* _download_with_backoff: delay
    attempt,             \* _download_with_backoff: attempt
    written,             \* chunks of the response body written by this attempt
    outcome,             \* how the last run ended ("running" while it runs)
    mfile0,              \* entries of the manifest file when the run loaded it
    fetched,             \* positions a request was issued for, in order
    existed,             \* positions whose destination existed when reached
    got404,              \* positions that got a not-found response in this run
    writes,              \* manifest rewrites of this run, by position
    slept,               \* backoff delays slept for the current entry
    lowReported,         \* a report of this run found free space under the floor
    renamed,             \* paths produced by tmp_path.replace(dest)
    marked,              \* positions whose failure marker a rewrite has recorded
    view,                \* view-next-download: what it last reported
    dry,                 \* what view-next-download reports where the run started
    crawl,               \* the manifest as the crawler wrote it
    printed,             \* <<heading, position>> of each descriptor and destination printed
    reports,             \* calls of _log_download_progress in this run
    since_report,        \* downloads completed since the last such call
    polite,              \* politeness sleeps of this run, by position
    succeeded,           \* positions downloaded in this run
    lastAbort,           \* position the latest run gave up on after the backoff ceiling
    prevAbort,           \* lastAbort as it was when the current run started, while
                         \* the run has made no request
    args,                \* the descriptors handed to _destination_for_entry
    dests                \* dests[k]: what the calls on args[k] returned, in order

progvars == << pc, limit, media, idx, total_entries, completed_entries,
               downloaded_files, downloads_since_log, bytes_on_disk, delay,
               attempt, written >>
obsvars == << outcome, mfile0, fetched, existed, got404, writes, slept,
              lowReported, renamed, marked, view, dry, crawl, printed, reports,
              since_report, polite, succeeded, lastAbort, prevAbort >>
resolver == << args, dests >>
vars == << mfile, disk, free_bytes, progvars, obsvars, crawl, resolver >>

NoView == [kind |-> "none", pos |-> 0]

\* no download-media or view-next-download process has run yet
NoRunYet ==
    /\ pc = "idle"
    /\ limit = <<>>
    /\ media = <<>>
    /\ idx = 0
    /\ total_entries = 0
    /\ completed_entries = 0
    /\ downloaded_files = 0
    /\ downloads_since_log = 0
    /\ bytes_on_disk = 0
    /\ delay = InitialDelay
    /\ attempt = 1
    /\ written = 0
    /\ outcome = "none"
    /\ mfile0 = <<>>
    /\ fetched = <<>>
    /\ existed = {}
    /\ got404 = {}
    /\ writes = <<>>
    /\ slept = <<>>
    /\ lowReported = FALSE
    /\ renamed = {}
    /\ marked = {}
    /\ view = NoView
    /\ dry = NoView
    /\ printed = {}
    /\ reports = 0
    /\ since_report = 0
    /\ polite = <<>>
    /\ succeeded = {}
    /\ lastAbort = 0
    /\ prevAbort = 0

Init ==
    /\ mfile \in { [state |-> "missing", entries |-> <<>>] }
                 \cup { [state |-> "ok", entries |-> m] : m \in Manifests }
    /\ disk = [p \in AllPaths |-> NoFile]
    /\ free_bytes \in FreeLevels
    /\ crawl = mfile.entries
    /\ NoRunYet
    /\ args = <<>>
    /\ dests = <<>>

\* ---------------------------------------------------------- remote replies

\* status of the response to one GET; 503 stands for every status that
\* raise_for_status() rejects other than 404, and for a transport error
Statuses == { 200, 404, 503 }

\* a 404 handled like every other rejected status
IsNotFoundNever(status) == FALSE

\* "if status == 404: raise DownloadNotFoundError(url)"
IsNotFound(status) == status = 404

\* "delay > MAX_BACKOFF_SECONDS" in place of ">="
BackoffExceededStrict(d) == d > MAX_BACKOFF_SECONDS

\* "if delay >= MAX_BACKOFF_SECONDS: raise RuntimeError(...)"
BackoffExceeded(d) == d >= MAX_BACKOFF_SECONDS

\* the delay grows by its first value in place of doubling
NextDelayLinear(d) == Min(d + InitialDelay, MAX_BACKOFF_SECONDS)

\* "delay = min(delay * 2, MAX_BACKOFF_SECONDS)"
NextDelay(d) == Min(d * 2, MAX_BACKOFF_SECONDS)

\* the comparison with the floor turned round
LowSpaceInverted(free) == free > MIN_FREE_BYTES

\* "if free_bytes < MIN_FREE_BYTES: raise RuntimeError(...)"
LowSpace(free) == free < MIN_FREE_BYTES

\* tmp_path.open("ab"): an existing .part file is appended to
OpenPartAppend(d, part) == [d EXCEPT ![part] = IF d[part] = NoFile THEN 0 ELSE d[part]]

\* tmp_path.open("wb"): the .part file is created or truncated
OpenPart(d, part) == [d EXCEPT ![part] = 0]

\* fh.write(chunk)
WriteChunk(d, part) == [d EXCEPT ![part] = d[part] + 1]

\* tmp_path.replace(dest)
ReplaceDest(d, part, dest) == [d EXCEPT ![dest] = d[part], ![part] = NoFile]

\* the success branch writes the manifest as the not-found branch does
ManifestRewrittenAfterDownload(mf, m) == [state |-> "ok", entries |-> m]

\* lines 345-347 touch the counters only: the manifest file stays as it is
ManifestAfterDownload(mf, m) == mf

\* a sleep before every fetch sequence, the first one included
SleepsBeforeEveryDownload(downloaded) == downloaded >= 0

\* "if downloaded_files > 0: time.sleep(random.uniform(*DOWNLOAD_DELAY_RANGE))"
SleepsBetweenDownloads(downloaded) == downloaded > 0

\* the words the message of _download_with_backoff's RuntimeError ends with
BackoffMessage == "aborting downloads"

\* the handler tests for words no message has
PrintsEntryNever(message) == FALSE

\* "if "aborting downloads" in str(exc).lower()": the entry and its destination
\* are printed under "Download aborted while fetching this entry:"
PrintsEntry(message) == message = "aborting downloads"

\* "continue" in place of the "return" of the RuntimeError handler
ContinueAfterBackoffExceeded == "loop"

\* the "return" of the RuntimeError handler leaves the loop for the finally block
AfterBackoffExceeded == "finally"

\* a request was issued for position i in this run
WasFetched(i) == \E k \in 1..Len(fetched) : fetched[k] = i

\* the entry of the current iteration and its paths
Entry == media[idx]
Dest == DestinationForEntry(Entry)

\* --------------------------------------------------- view-next-download

\* command_view_next_download: what it prints for a manifest file, a media
\* directory and a --limit
ViewReport(mf, d, lim) ==
    IF mf.state = "missing" THEN [kind |-> "missing", pos |-> 0]
    ELSE IF mf.state = "corrupt" THEN [kind |-> "load_error", pos |-> 0]
    ELSE IF mf.entries = <<>> THEN [kind |-> "empty", pos |-> 0]
    ELSE LET pending == GetNextPendingEntry(ApplyLimit(mf.entries, lim), d)
         IN  [kind |-> IF pending = 0 THEN "nothing" ELSE "entry", pos |-> pending]

\* ------------------------------------------------------- download-media

\* command_download_media up to the loop: load the manifest, apply the cap,
\* scan the media directory
StartRun(lim) ==
    /\ pc = "idle"
    /\ limit' = lim
    /\ mfile0' = mfile.entries
    /\ fetched' = <<>>
    /\ existed' = {}
    /\ got404' = {}
    /\ slept' = <<>>
    /\ lowReported' = FALSE
    /\ view' = NoView
    /\ dry' = ViewReport(mfile, disk, lim)
    /\ idx' = 0
    /\ completed_entries' = 0
    /\ downloaded_files' = 0
    /\ downloads_since_log' = 0
    /\ delay' = InitialDelay
    /\ attempt' = 1
    /\ written' = 0
    /\ IF mfile.state = "missing"
       THEN /\ outcome' = "manifest_missing"
            /\ pc' = "idle"
            /\ media' = <<>>
            /\ total_entries' = 0
            /\ bytes_on_disk' = 0
       ELSE IF mfile.state = "corrupt"
       THEN /\ outcome' = "load_error"
            /\ pc' = "idle"
            /\ media' = <<>>
            /\ total_entries' = 0
            /\ bytes_on_disk' = 0
       ELSE IF mfile.entries = <<>>
       THEN /\ outcome' = "manifest_empty"
            /\ pc' = "idle"
            /\ media' = <<>>
            /\ total_entries' = 0
            /\ bytes_on_disk' = 0
       ELSE /\ outcome' = "running"
            /\ pc' = "loop"
            /\ media' = ApplyLimit(mfile.entries, lim)
            /\ total_entries' = Len(media')
            /\ bytes_on_disk' = DirSizeBytes(disk)
    /\ writes' = [i \in 1..total_entries' |-> 0]
    /\ printed' = {}
    /\ reports' = 0
    /\ since_report' = 0
    /\ polite' = [i \in 1..total_entries' |-> 0]
    /\ succeeded' = {}
    /\ prevAbort' = lastAbort
    /\ lastAbort' = 0
    /\ UNCHANGED << mfile, disk, free_bytes, renamed, marked, crawl, resolver >>

\* one pass through the head of "for entry in media": the end of the list,
\* a skipped entry, or the start of a fetch sequence
NextEntry ==
    /\ pc = "loop"
    /\ IF idx = Len(media)
       THEN /\ pc' = "finally"
            /\ UNCHANGED << idx, completed_entries, existed, delay, attempt, slept,
                            polite >>
       ELSE /\ idx' = idx + 1
            /\ completed_entries' = completed_entries + 1
            /\ existed' = IF Exists(disk, DestinationForEntry(media[idx + 1]))
                          THEN existed \cup {idx + 1} ELSE existed
            /\ IF ShouldSkip(media[idx + 1], disk)
               THEN /\ pc' = "loop"
                    /\ UNCHANGED << delay, attempt, slept, polite >>
               ELSE /\ pc' = "attempt"
                    /\ polite' = IF SleepsBetweenDownloads(downloaded_files)
                                 THEN [polite EXCEPT ![idx + 1] = @ + 1]
                                 ELSE polite
                    /\ delay' = InitialDelay
                    /\ attempt' = 1
                    /\ slept' = <<>>
    /\ UNCHANGED << mfile, disk, free_bytes, limit, media, total_entries,
                    downloaded_files, downloads_since_log, bytes_on_disk, written,
                    outcome, mfile0, fetched, got404, writes, lowReported,
                    renamed, marked, view, dry, printed, reports, since_report,
                    succeeded, lastAbort, prevAbort, crawl, resolver >>

\* _download_file up to the first chunk: the GET is sent and the status read.
\* A 404 reaches the handler of command_download_media, which marks the entry
\* and opens the manifest for writing (write_text truncates it).
Request(status) ==
    /\ pc = "attempt"
    /\ fetched' = IF WasFetched(idx) THEN fetched ELSE Append(fetched, idx)
    /\ prevAbort' = 0
    /\ IF status = 200
       THEN /\ disk' = OpenPart(disk, PartPath(Dest))
            /\ written' = 0
            /\ pc' = "stream"
            /\ UNCHANGED << media, mfile, got404, delay, attempt, slept >>
       ELSE IF IsNotFound(status)
       THEN /\ media' = [media EXCEPT ![idx].failure = <<404>>]
            /\ mfile' = [state |-> "corrupt", entries |-> <<>>]
            /\ got404' = got404 \cup {idx}
            /\ pc' = "save"
            \* _download_with_backoff has raised: its locals are gone
            /\ delay' = InitialDelay
            /\ attempt' = 1
            /\ slept' = <<>>
            /\ UNCHANGED << disk, written >>
       ELSE /\ pc' = "backoff"
            /\ got404' = IF status = 404 THEN got404 \cup {idx} ELSE got404
            /\ UNCHANGED << media, mfile, disk, written, delay, attempt, slept >>
    /\ UNCHANGED << free_bytes, limit, idx, total_entries, completed_entries,
                    downloaded_files, downloads_since_log, bytes_on_disk,
                    outcome, mfile0, existed, writes, lowReported, renamed,
                    marked, view, dry, printed, reports, since_report, polite,
                    succeeded, lastAbort, crawl, resolver >>

\* manifest.write_text(json.dumps(media, indent=2)) completes; the entry and
\* its destination are printed
SaveManifest ==
    /\ pc = "save"
    /\ mfile' = [state |-> "ok", entries |-> media]
    /\ writes' = [writes EXCEPT ![idx] = writes[idx] + 1]
    /\ marked' = marked \cup {idx}
    /\ printed' = printed \cup { <<"recorded 404", idx>> }
    /\ pc' = "loop"
    /\ UNCHANGED << disk, free_bytes, limit, media, idx, total_entries,
                    completed_entries, downloaded_files, downloads_since_log,
                    bytes_on_disk, delay, attempt, written, outcome, mfile0,
                    fetched, existed, got404, slept, lowReported, renamed,
                    view, dry, reports, since_report, polite, succeeded,
                    lastAbort, prevAbort, crawl, resolver >>

\* one chunk of the body is written to the .part file
StreamChunk ==
    /\ pc = "stream"
    /\ written < BodyLen
    /\ disk' = WriteChunk(disk, PartPath(Dest))
    /\ written' = written + 1
    /\ UNCHANGED << mfile, free_bytes, pc, limit, media, idx, total_entries,
                    completed_entries, downloaded_files, downloads_since_log,
                    bytes_on_disk, delay, attempt, obsvars, crawl, resolver >>

\* the stream breaks before the body is complete (httpx.HTTPError)
StreamError ==
    /\ pc = "stream"
    /\ written < BodyLen
    /\ pc' = "backoff"
    /\ UNCHANGED << mfile, disk, free_bytes, limit, media, idx, total_entries,
                    completed_entries, downloaded_files, downloads_since_log,
                    bytes_on_disk, delay, attempt, written, obsvars, crawl, resolver >>

\* the stream is complete: rename, return the size, count the download
Promote ==
    /\ pc = "stream"
    /\ written = BodyLen
    /\ disk' = ReplaceDest(disk, PartPath(Dest), Dest)
    /\ renamed' = renamed \cup {Dest}
    /\ downloaded_files' = downloaded_files + 1
    /\ downloads_since_log' = downloads_since_log + 1
    /\ bytes_on_disk' = bytes_on_disk + disk'[Dest]
    /\ mfile' = ManifestAfterDownload(mfile, media)
    /\ since_report' = since_report + 1
    /\ succeeded' = succeeded \cup {idx}
    /\ pc' = IF downloads_since_log' >= DOWNLOAD_LOG_INTERVAL THEN "report" ELSE "loop"
    \* _download_with_backoff has returned: its locals are gone
    /\ delay' = InitialDelay
    /\ attempt' = 1
    /\ slept' = <<>>
    /\ written' = 0
    /\ UNCHANGED << free_bytes, limit, media, idx, total_entries,
                    completed_entries, outcome, mfile0, fetched, existed,
                    got404, writes, lowReported, marked, view, dry, printed,
                    reports, polite, lastAbort, prevAbort, crawl, resolver >>

\* _download_with_backoff after a transient failure; when it gives up, the
\* handler of command_download_media prints the entry and its destination
Backoff ==
    /\ pc = "backoff"
    /\ IF BackoffExceeded(delay)
       THEN /\ outcome' = "backoff_exceeded"
            /\ printed' = IF PrintsEntry(BackoffMessage)
                          THEN printed \cup { <<"download aborted", idx>> }
                          ELSE printed
            /\ lastAbort' = idx
            /\ pc' = AfterBackoffExceeded
            /\ UNCHANGED << delay, attempt, slept >>
       ELSE /\ slept' = Append(slept, delay)
            /\ delay' = NextDelay(delay)
            /\ attempt' = attempt + 1
            /\ pc' = "attempt"
            /\ UNCHANGED << outcome, printed, lastAbort >>
    /\ UNCHANGED << mfile, disk, free_bytes, limit, media, idx, total_entries,
                    completed_entries, downloaded_files, downloads_since_log,
                    bytes_on_disk, written, mfile0, fetched, existed, got404,
                    writes, lowReported, renamed, marked, view, dry, reports,
                    since_report, polite, succeeded, prevAbort, crawl, resolver >>

\* the periodic _log_download_progress inside the loop
PeriodicReport ==
    /\ pc = "report"
    /\ reports' = reports + 1
    /\ since_report' = 0
    /\ lowReported' = (lowReported \/ free_bytes < MIN_FREE_BYTES)
    /\ IF LowSpace(free_bytes)
       THEN /\ outcome' = "low_disk"
            /\ pc' = "finally"
            /\ UNCHANGED downloads_since_log
       ELSE /\ downloads_since_log' = 0
            /\ pc' = "loop"
            /\ UNCHANGED outcome
    /\ UNCHANGED << mfile, disk, free_bytes, limit, media, idx, total_entries,
                    completed_entries, downloaded_files, bytes_on_disk, delay,
                    attempt, written, mfile0, fetched, existed, got404, writes,
                    slept, renamed, marked, view, dry, printed, polite, succeeded,
                    lastAbort, prevAbort, crawl, resolver >>

\* the finally block and the closing message
Finally ==
    /\ pc = "finally"
    /\ pc' = "idle"
    /\ prevAbort' = 0
    /\ IF downloads_since_log # 0
       THEN reports' = reports + 1 /\ since_report' = 0
       ELSE UNCHANGED << reports, since_report >>
    /\ lowReported' = (lowReported \/ (downloads_since_log # 0 /\ free_bytes < MIN_FREE_BYTES))
    /\ outcome' = IF outcome # "running" THEN outcome
                  ELSE IF downloads_since_log # 0 /\ LowSpace(free_bytes) THEN "low_disk"
                  ELSE "completed"
    /\ UNCHANGED << mfile, disk, free_bytes, limit, media, idx, total_entries,
                    completed_entries, downloaded_files, downloads_since_log,
                    bytes_on_disk, delay, attempt, written, mfile0, fetched,
                    existed, got404, writes, slept, renamed, marked, view, dry,
                    printed, polite, succeeded, lastAbort, crawl, resolver >>

\* view-next-download is run; the memory and the output of the download-media
\* process that ran before are gone
ViewNext(lim) ==
    /\ pc = "idle"
    /\ view' = ViewReport(mfile, disk, lim)
    /\ limit' = lim
    /\ media' = <<>>
    /\ idx' = 0
    /\ total_entries' = 0
    /\ completed_entries' = 0
    /\ downloaded_files' = 0
    /\ downloads_since_log' = 0
    /\ bytes_on_disk' = 0
    /\ delay' = InitialDelay
    /\ attempt' = 1
    /\ written' = 0
    /\ outcome' = "none"
    /\ mfile0' = <<>>
    /\ fetched' = <<>>
    /\ existed' = {}
    /\ got404' = {}
    /\ writes' = <<>>
    /\ slept' = <<>>
    /\ lowReported' = FALSE
    /\ dry' = NoView
    /\ printed' = {}
    /\ reports' = 0
    /\ since_report' = 0
    /\ polite' = <<>>
    /\ succeeded' = {}
    /\ prevAbort' = 0
    /\ UNCHANGED << mfile, disk, free_bytes, pc, renamed, marked, lastAbort, crawl,
                    resolver >>

\* ------------------------------------------------------------ environment

\* other users of the filesystem change the free space
FreeSpaceChanges ==
    /\ \E f \in FreeLevels \ {free_bytes} : free_bytes' = f
    /\ UNCHANGED << mfile, disk, progvars, obsvars, crawl, resolver >>

\* the process is killed: memory is lost, the files stay as they are
Kill ==
    /\ pc # "idle"
    /\ pc' = "idle"
    /\ outcome' = "killed"
    /\ media' = <<>>
    /\ idx' = 0
    /\ total_entries' = 0
    /\ completed_entries' = 0
    /\ downloaded_files' = 0
    /\ downloads_since_log' = 0
    /\ bytes_on_disk' = 0
    /\ delay' = InitialDelay
    /\ attempt' = 1
    /\ written' = 0
    /\ mfile0' = <<>>
    /\ fetched' = <<>>
    /\ existed' = {}
    /\ got404' = {}
    /\ writes' = <<>>
    /\ slept' = <<>>
    /\ lowReported' = FALSE
    /\ dry' = NoView
    /\ printed' = {}
    /\ reports' = 0
    /\ since_report' = 0
    /\ polite' = <<>>
    /\ succeeded' = {}
    /\ prevAbort' = 0
    /\ lastAbort' = 0
    /\ UNCHANGED << mfile, disk, free_bytes, limit, renamed, marked, view, crawl,
                    resolver >>

Next ==
    \/ \E lim \in Limits : StartRun(lim)
    \/ NextEntry
    \/ \E status \in Statuses : Request(status)
    \/ SaveManifest
    \/ StreamChunk
    \/ StreamError
    \/ Promote
    \/ Backoff
    \/ PeriodicReport
    \/ Finally
    \/ \E lim \in Limits : ViewNext(lim)
    \/ FreeSpaceChanges

Spec == Init /\ [][Next]_vars

NextKill == Next \/ Kill

SpecKill == Init /\ [][NextKill]_vars

\* a step of the download-media process
RunStep ==
    \/ NextEntry
    \/ \E status \in Statuses : Request(status)
    \/ SaveManifest
    \/ StreamChunk
    \/ StreamError
    \/ Promote
    \/ Backoff
    \/ PeriodicReport
    \/ Finally

\* a started process keeps running: every sleep is finite, every request ends
\* (in a response, an error or a timeout) and every body is finite
SpecFair == Init /\ [][Next]_vars /\ WF_vars(RunStep)

\* ------------------------------------------------- _destination_for_entry

\* calls of the resolver on one descriptor
MaxCalls == 2

\* what entry.get("name") and entry.get("title") can give: no key, null, the
\* empty string, a string with a space, the same string with an underscore
FieldValues == { Absent, Null, <<>>, <<"a", " ">>, <<"a", "_">> }

\* entry.get("sha1"): no key, the empty string, a hash
HashValues == { Absent, <<>>, <<"s">> }

\* the descriptors the resolver is applied to
ResolverDescriptors ==
    [ url : { <<"u">>, <<"v">> }, name : FieldValues,
      title : { Absent, Null, <<>>, <<"a", " ">> }, sha1 : HashValues,
      failure : { <<>> } ]

\* two entries of a manifest, no call made yet
InitResolve ==
    /\ mfile = [state |-> "missing", entries |-> <<>>]
    /\ disk = [p \in AllPaths |-> NoFile]
    /\ free_bytes = MIN_FREE_BYTES
    /\ crawl = <<>>
    /\ NoRunYet
    /\ args \in [1..2 -> ResolverDescriptors]
    /\ dests = [k \in 1..2 |-> <<>>]

\* dest = _destination_for_entry(media_dir, entry): nothing but the entry is
\* read, nothing is written
Resolve(k) ==
    /\ Len(dests[k]) < MaxCalls
    /\ dests' = [dests EXCEPT ![k] = Append(@, DestinationForEntry(args[k]))]
    /\ UNCHANGED << mfile, disk, free_bytes, progvars, obsvars, crawl, args >>

NextResolve == \E k \in 1..2 : Resolve(k)

SpecResolve == InitResolve /\ [][NextResolve]_vars

\* ------------------------------------------------------------- properties

FetchPcs == { "attempt", "stream", "backoff" }

\* C1: an entry whose destination path exists when the loop reaches it gets
\* no network request and causes no manifest write in that run.
C1_ExistingNeverFetched ==
    \A i \in existed : ~WasFetched(i) /\ writes[i] = 0

\* a completed run passed an entry with a url and no failure marker whose file
\* was already there, and fetched another entry
C1_Witness ==
    /\ pc = "idle"
    /\ outcome = "completed"
    /\ Len(fetched) > 0
    /\ \E i \in existed : Truthy(media[i].url) /\ media[i].failure = <<>>

\* C2: an entry whose failure marker a run has recorded is never requested
\* again, in that run or a later one, and the marker is in the manifest file
\* whenever a run may start.
C2_FailedNeverRetried ==
    /\ pc \in FetchPcs => idx \notin marked
    /\ pc = "idle" =>
         \A i \in marked :
            /\ mfile.state = "ok"
            /\ i <= Len(mfile.entries)
            /\ mfile.entries[i].failure # <<>>

\* a later run went past an entry marked by an earlier run
C2_Witness ==
    /\ pc = "idle"
    /\ outcome = "completed"
    /\ \E i \in marked : i \notin got404 /\ i <= idx /\ media[i].failure = <<404>>

\* C3: a not-found response for an entry is followed by exactly one manifest
\* rewrite that shows its marker, by no further attempt and no backoff sleep
\* for it, by no file at its destination, and by the next iteration of the
\* loop.
C3_NotFoundHandled ==
    \A i \in got404 :
       /\ idx = i => pc \in { "save", "loop", "finally", "idle" }
       /\ idx = i /\ pc \in { "finally", "idle" } =>
             idx = Len(media) /\ outcome \in { "running", "completed", "low_disk" }
       /\ writes[i] = IF idx = i /\ pc = "save" THEN 0 ELSE 1
       /\ pc # "save" => mfile.state = "ok" /\ mfile.entries[i].failure = <<404>>
       /\ idx = i => ~Exists(disk, DestinationForEntry(media[i]))
       /\ idx = i => slept = <<>>

\* the run is back at the head of the loop after a 404 and its rewrite, with
\* entries left to process
C3_Witness ==
    /\ pc = "loop"
    /\ idx \in got404
    /\ idx < Len(media)
    /\ writes[idx] = 1

\* C4: the backoff delays slept for one entry are 5, 10, 20, ...: each twice
\* the one before, all under the 7200 second ceiling; the run is aborted
\* without a sleep when the delay to apply has reached the ceiling.
C4_BackoffDelays ==
    /\ \A k \in 1..Len(slept) :
          /\ slept[k] = InitialDelay * 2 ^ (k - 1)
          /\ slept[k] < MAX_BACKOFF_SECONDS
          /\ k > 1 => slept[k - 1] <= slept[k]
    /\ pc \in FetchPcs => Len(slept) = attempt - 1
    /\ pc \in FetchPcs \/ outcome = "backoff_exceeded" => delay <= MAX_BACKOFF_SECONDS
    /\ outcome = "backoff_exceeded" =>
          delay >= MAX_BACKOFF_SECONDS /\ Len(slept) = attempt - 1

\* the run was aborted after the eleven sleeps the doubling allows
C4_Witness ==
    /\ outcome = "backoff_exceeded"
    /\ Len(slept) = 11
    /\ slept[11] = 5120

\* C5 as stated: no fetch attempt is started while free space is under the
\* floor.
C5_NoFetchUnderFloor ==
    pc = "attempt" => free_bytes >= MIN_FREE_BYTES

\* C5 amended: once a progress report of the run has found free space under
\* the floor, the run is over: it starts no further fetch attempt.
C5_NoFetchAfterLowReport ==
    lowReported =>
       /\ pc \in { "finally", "idle" }
       /\ outcome \in { "low_disk", "backoff_exceeded" }

\* the periodic report stopped the run with entries left in the manifest
C5_Witness ==
    /\ lowReported
    /\ pc = "finally"
    /\ outcome = "low_disk"
    /\ idx < Len(media)

\* C6: with a cap N >= 0 only the first N entries are considered: the
\* reported total is min(N, manifest length) and no entry at a position
\* beyond N is iterated, fetched or marked.
C6_CapBoundsRun ==
    limit # <<>> =>
       /\ total_entries = Min(limit[1], Len(mfile0))
       /\ completed_entries <= limit[1]
       /\ \A k \in 1..Len(fetched) : fetched[k] <= limit[1]
       /\ \A i \in got404 : i <= limit[1]

\* C7: after a run with a cap N >= 1 on a manifest longer than N, the
\* manifest file still holds every entry beyond position N, unchanged.
C7_BeyondCapKept ==
    pc = "idle" /\ limit # <<>> /\ outcome \in { "completed", "backoff_exceeded", "low_disk" } =>
       (limit[1] >= 1 /\ Len(mfile0) > limit[1] =>
          /\ mfile.state = "ok"
          /\ Len(mfile.entries) = Len(mfile0)
          /\ \A p \in (limit[1] + 1)..Len(mfile0) : mfile.entries[p] = mfile0[p])

\* C8: a file under a final name holds a whole body and was put there by the
\* rename that ends a complete stream; an attempt writes its .part file from
\* the start, whatever an earlier attempt or a killed run left there.
C8_NoPartialFinalName ==
    /\ \A p \in DestPaths : disk[p] # NoFile => disk[p] = BodyLen /\ p \in renamed
    /\ pc = "stream" => disk[PartPath(Dest)] = written

\* a killed run left a partial .part file beside a completed download
C8_Witness ==
    /\ outcome = "killed"
    /\ \E p \in DestPaths : disk[p] = NoFile /\ disk[PartPath(p)] \in 1..(BodyLen - 1)
    /\ \E q \in DestPaths : disk[q] = BodyLen

\* C9: after a kill at any step the manifest file loads as the full sequence
\* of entries and shows every failure marker a completed rewrite recorded.
C9_KillLeavesManifestValid ==
    outcome = "killed" =>
       /\ mfile.state = "ok"
       /\ Len(mfile.entries) = Len(crawl)
       /\ \A i \in marked : mfile.entries[i].failure # <<>>

\* C10: view-next-download reports the entry download-media fetches first
\* when started in the same state with the same cap, reports no entry exactly
\* when download-media fetches none, and changes neither the manifest file
\* nor the media directory.
C10_DryRunAgrees ==
    /\ [](Len(fetched) > 0 => dry.kind = "entry" /\ fetched[1] = dry.pos)
    /\ [](dry.kind = "entry" /\ pc \in { "finally", "idle" } => Len(fetched) > 0)
    /\ [](dry.kind = "entry" /\ pc = "loop" /\ Len(fetched) = 0 => idx < dry.pos)
    /\ [](pc = "idle" /\ view.kind # "none" => view = ViewReport(mfile, disk, limit))
    /\ [][view'.kind # "none" /\ (view' # view \/ limit' # limit) =>
             mfile' = mfile /\ disk' = disk /\ fetched' = <<>>]_vars

\* a capped run fetched the entry the dry run named, after skipping one
C10_Witness ==
    /\ dry.kind = "entry"
    /\ dry.pos > 1
    /\ limit # <<>>
    /\ Len(fetched) > 0
    /\ fetched[1] = dry.pos

\* C11: every call of the resolver returns the file name "name or title or
\* "file"" (the first of name and title that is a non-empty string, "file"
\* when there is none) with spaces replaced by underscores, prefixed by
\* sha1 + "_" when sha1 is a non-empty string; repeated calls on the same
\* descriptor return the same path and the files are left alone.
C11_ResolverContract ==
    /\ \A k \in 1..Len(args) : \A c \in 1..Len(dests[k]) :
          LET e == args[k]
              chosen == IF Truthy(e.name) THEN e.name
                        ELSE IF Truthy(e.title) THEN e.title
                        ELSE <<"f", "i", "l", "e">>
              sanitized == [i \in 1..Len(chosen) |->
                               IF chosen[i] = " " THEN "_" ELSE chosen[i]]
              prefix == IF Truthy(e.sha1) THEN e.sha1 \o <<"_">> ELSE <<>>
          IN  /\ dests[k][c] = prefix \o sanitized
              /\ dests[k][c] = dests[k][1]
    /\ \A p \in AllPaths : disk[p] = NoFile
    /\ mfile.state = "missing"

\* C12: two descriptors that differ in url, in name or title, or in sha1 are
\* never resolved to the same path.
C12_UniquePaths ==
    \A j \in 1..Len(args) : \A k \in 1..Len(args) :
        /\ (args[j].url # args[k].url \/ args[j].name # args[k].name
              \/ args[j].title # args[k].title \/ args[j].sha1 # args[k].sha1)
        /\ dests[j] # <<>>
        /\ dests[k] # <<>>
        => dests[j][1] # dests[k][1]

\* C13: every abort of a run, by the backoff ceiling or by low disk space,
\* prints the descriptor and the destination path of the entry in flight
\* before the run stops.
C13_EveryAbortPrintsEntry ==
    outcome \in { "backoff_exceeded", "low_disk" } =>
        <<"download aborted", idx>> \in printed

\* C13 as the code has it: the abort by the backoff ceiling prints the
\* descriptor and the destination path of the entry in flight; nothing else
\* prints them under that heading, the abort by low disk space included.
C13_BackoffAbortPrintsEntry ==
    /\ outcome = "backoff_exceeded" => <<"download aborted", idx>> \in printed
    /\ \A x \in printed :
          x[1] = "download aborted" => outcome = "backoff_exceeded" /\ x[2] = idx
    /\ outcome = "low_disk" => \A x \in printed : x[1] # "download aborted"

\* a run gave up on its second or third entry and printed it
C13_Witness ==
    /\ pc = "idle"
    /\ outcome = "backoff_exceeded"
    /\ idx > 1
    /\ <<"download aborted", idx>> \in printed

\* C14: the manifest file is written only in the not-found branch: a step
\* that completes a download leaves it as it is, every change of it belongs to
\* an entry that got a not-found response, each such entry causes one write
\* and no other entry causes any, and a run without a not-found response,
\* completed or aborted, leaves the file as it loaded it.
C14_ManifestWrittenOnlyOnNotFound ==
    /\ [][succeeded' # succeeded => mfile' = mfile]_vars
    /\ [][mfile' # mfile => pc \in { "attempt", "save" } /\ idx \in got404']_vars
    /\ [](\A i \in 1..Len(writes) :
             writes[i] = IF i \in got404 /\ ~(pc = "save" /\ idx = i) THEN 1 ELSE 0)
    /\ [](outcome \in { "running", "completed", "backoff_exceeded", "low_disk" }
            /\ got404 = {}
            => mfile = [state |-> "ok", entries |-> mfile0])

\* a run ended after one download and one not-found response, with one write
C14_Witness ==
    /\ pc = "idle"
    /\ outcome \in { "completed", "backoff_exceeded", "low_disk" }
    /\ succeeded # {}
    /\ Cardinality(got404) = 1
    /\ \A i \in 1..Len(writes) : writes[i] = (IF i \in got404 THEN 1 ELSE 0)

\* C15: a progress report is made at the DOWNLOAD_LOG_INTERVAL-th completed
\* download since the previous report and at no other moment of the loop; the
\* end of the run makes one more report exactly when a download completed
\* since the last one; once a report has found the free space under the
\* floor, the run makes no further report.
C15_ReportSchedule ==
    /\ [][reports' = reports + 1 =>
             /\ since_report >= 1
             /\ pc = "report" => since_report = DOWNLOAD_LOG_INTERVAL]_vars
    /\ [](since_report <= DOWNLOAD_LOG_INTERVAL)
    /\ [](since_report = DOWNLOAD_LOG_INTERVAL => pc = "report")
    /\ [][pc = "finally" /\ pc' = "idle" =>
             reports' = reports + (IF since_report >= 1 THEN 1 ELSE 0)]_vars
    /\ [][lowReported => reports' <= reports]_vars

\* C16: in a run, the fetch sequence of an entry is preceded by exactly one
\* politeness sleep when a download of that run completed before it and by
\* none otherwise (so none before the first completed download); an entry
\* that is skipped causes no sleep.
C16_PolitenessSleeps ==
    \A i \in 1..Len(polite) :
        LET started == WasFetched(i) \/ (idx = i /\ pc = "attempt")
        IN  polite[i] = IF started /\ (\E j \in succeeded : j < i) THEN 1 ELSE 0

\* a run downloaded its first entry, skipped the second and slept once before
\* fetching the third
C16_Witness ==
    /\ pc = "idle"
    /\ 1 \in succeeded
    /\ ~WasFetched(2)
    /\ WasFetched(3)
    /\ polite = <<0, 0, 1>>

\* C17: when the backoff ceiling is exceeded the run stops at that entry: no
\* request is made for a later entry, the entry has no failure marker in
\* memory or in the manifest file, the run made no manifest write for it, no
\* file is at its destination path; and the run that follows, whenever the
\* entry is within its cap, neither passes the entry nor ends before it has
\* made a request, and its first request is for that entry.
C17_BackoffAbortHaltsRun ==
    /\ [](outcome = "backoff_exceeded" =>
            /\ pc \in { "finally", "idle" }
            /\ \A k \in 1..Len(fetched) : fetched[k] <= idx
            /\ fetched[Len(fetched)] = idx
            /\ media[idx].failure = <<>>
            /\ writes[idx] = 0
            /\ mfile.state = "ok"
            /\ mfile.entries[idx].failure = <<>>
            /\ ~Exists(disk, DestinationForEntry(media[idx]))
            /\ pc = "idle" => lastAbort = idx)
    /\ [](prevAbort # 0 /\ outcome = "running" /\ prevAbort <= Len(media) =>
            /\ fetched = <<>>
            /\ pc \in { "loop", "attempt" }
            /\ idx <= prevAbort
            /\ pc = "attempt" <=> idx = prevAbort)
    /\ [][prevAbort # 0 /\ fetched' # fetched => fetched' = << prevAbort >>]_vars

\* the run after an abort at the second or third entry has skipped what is
\* before that entry and starts its fetch sequence again
C17_Witness ==
    /\ pc = "attempt"
    /\ prevAbort > 1
    /\ idx = prevAbort
    /\ fetched = <<>>

\* C18: the retry loop of an entry makes at most 12 fetch attempts and 11
\* sleeps; every run that has started ends, as completed or aborted (so every
\* retry loop ends: in a download, a not-found response or the backoff abort).
C18_RetryLoopEnds ==
    /\ [](attempt <= 12 /\ Len(slept) <= 11)
    /\ [](pc \in FetchPcs => Len(slept) = attempt - 1)
    /\ (pc # "idle") ~>
          (pc = "idle" /\ outcome \in { "completed", "backoff_exceeded", "low_disk" })

\* the twelfth attempt of an entry is under way after eleven sleeps
C18_Witness ==
    /\ pc = "attempt"
    /\ attempt = 12
    /\ Len(slept) = 11
    /\ idx > 1

\* C19: requests follow the order of the manifest, one entry at a time: when
\* an entry is in its fetch sequence, every earlier entry of the run was
\* skipped (no url, a failure marker, a file at its path), downloaded or
\* marked failed in that run, and is skipped by every run from then on; a
\* failure marker is set only on a not-found response; an entry whose fetch
\* failed otherwise stays pending, so no later entry is fetched in any run.
C19_SequentialOrder ==
    /\ [](\A k \in 1..(Len(fetched) - 1) : fetched[k] < fetched[k + 1])
    /\ [](pc \in { "stream", "backoff" } => fetched[Len(fetched)] = idx)
    /\ [](pc \in FetchPcs =>
            /\ media[idx].failure = <<>>
            /\ \A k \in 1..Len(fetched) : fetched[k] <= idx
            /\ \A i \in 1..(idx - 1) :
                  /\ \/ ~Truthy(media[i].url)
                     \/ mfile0[i].failure # <<>>
                     \/ i \in existed
                     \/ i \in succeeded
                     \/ i \in got404 /\ writes[i] = 1
                  /\ ShouldSkip(media[i], disk))
    /\ [][pc # "idle" /\ media' # media =>
             /\ idx \in got404'
             /\ media' = [media EXCEPT ![idx].failure = <<404>>]]_vars
    /\ [][pc = "backoff" =>
             /\ media' = media
             /\ idx' = idx
             /\ mfile' = mfile
             /\ ~ShouldSkip(media[idx], disk')]_vars

\* a resumed run found the file of its first entry, gave up on the second
\* and never made a request for the third, which is pending
C19_Witness ==
    /\ pc = "idle"
    /\ outcome = "backoff_exceeded"
    /\ fetched = << 2 >>
    /\ 1 \in existed
    /\ Len(media) = 3
    /\ ~ShouldSkip(media[3], disk)

\* C20: when a progress report is made and when the run has ended,
\* bytes_on_disk is the total size of the files in the media directory.
C20_BytesOnDiskExact ==
    \/ pc = "report"
    \/ pc = "finally" /\ downloads_since_log # 0
    \/ pc = "idle" /\ outcome \in { "completed", "backoff_exceeded", "low_disk" }
    => bytes_on_disk = DirSizeBytes(disk)

====
